---- MODULE Spec2Model ----
(***************************************************************************)
(* Currency utilities of openbazaar-desktop: js/utils/currency.js and      *)
(* js/models/listing/Price.js.                                             *)
(*                                                                         *)
(* The exchange-rate cache and its fetch handlers are a state machine      *)
(* (Spec).  The unit converters, the divisibility resolver, the display    *)
(* digit extension and the Price helpers are pure functions; each has a    *)
(* specification of its own that draws the arguments from bounded sets and *)
(* records the call in the variable "call".                                *)
(***************************************************************************)
EXTENDS Integers, Sequences, FiniteSets, TLC

VARIABLES
    exchangeRates,   \* currency.js:448  the process-wide table, code -> rate
    supportedCurs,   \* what supportedWalletCurs() returns (server configuration)
    pending,         \* fetches issued and not yet completed, in issue order
    emitted,         \* the events triggered by the last step, in order
    call             \* the last call of an exported function and what it returned

vars == <<exchangeRates, supportedCurs, pending, emitted, call>>

-----------------------------------------------------------------------------
(* Bounds of the model.                                                    *)

\* Fetches that may be in flight at once.
MaxInFlight == 2
\* Largest coin divisibility tried by the base-unit converter.
MaxDivisibility == 22
\* Largest starting maximum of display decimals tried.
MaxDesiredMax == 21
\* Largest decimal exponent (number of decimals) of a tried amount.
MaxAmountDecimals == 23

-----------------------------------------------------------------------------
(* JavaScript values.                                                      *)

Undefined == "undefined"

(***************************************************************************)
(* A decimal number is c * 10^e, kept exactly: this is how bignumber.js    *)
(* holds a value (coefficient and exponent), and the JS numbers that occur *)
(* here are short decimals for which the double arithmetic of the source   *)
(* (one multiplication or division by a power of ten, then a rounding)     *)
(* yields the same decimal.                                                *)
(***************************************************************************)
Dec(c, e) == [c |-> c, e |-> e]

Zero == Dec(0, 0)

Abs(n) == IF n < 0 THEN -n ELSE n

Sign(n) == IF n < 0 THEN -1 ELSE IF n > 0 THEN 1 ELSE 0

RECURSIVE Pow10(_)
Pow10(n) == IF n <= 0 THEN 1 ELSE 10 * Pow10(n - 1)

\* The canonical form of a decimal: no trailing zero in the coefficient.
RECURSIVE Norm(_)
Norm(x) ==
    IF x.c = 0 THEN Zero
    ELSE IF x.c % 10 = 0 THEN Norm(Dec(x.c \div 10, x.e + 1))
    ELSE x

\* x * 10^k and x / 10^k, exact (a shift of the exponent).
Shift(x, k) == Dec(x.c, x.e + k)

\* Coefficients stay below 10^MaxCoefDigits, so that dropping MaxCoefDigits + 1
\* digits or more always rounds to zero.
MaxCoefDigits == 8

\* The decimal places of a price amount.
MaxPriceDecimals == 10

(***************************************************************************)
(* x rounded to dp decimal places, half away from zero: bignumber.js's     *)
(* ROUND_HALF_UP, its default ROUNDING_MODE.                               *)
(***************************************************************************)
RoundHalfUp(x, dp) ==
    LET drop == (0 - x.e) - dp IN
    IF drop <= 0 THEN x
    ELSE IF drop > MaxCoefDigits THEN Dec(0, 0 - dp)
    ELSE LET p == Pow10(drop)
             q == Abs(x.c) \div p
             r == Abs(x.c) % p
             up == IF 2 * r >= p THEN 1 ELSE 0
         IN  Dec(Sign(x.c) * (q + up), 0 - dp)

DecEq(x, y) == Norm(x) = Norm(y)

IsZeroDec(x) == x.c = 0

\* A JS value: a number or a string that holds the decimal v, a number or a
\* string that is no number (nan), or undefined.
Num(x) == [t |-> "number", nan |-> FALSE, v |-> x]
Str(x) == [t |-> "string", nan |-> FALSE, v |-> x]
NumNaN == [t |-> "number", nan |-> TRUE, v |-> Zero]
StrNaN == [t |-> "string", nan |-> TRUE, v |-> Zero]
JsUndefined == [t |-> "undefined", nan |-> TRUE, v |-> Zero]

\* What a call returned, or the error it threw.
Ok(v) == [kind |-> "ok", val |-> v]
Throw(err) == [kind |-> "error", val |-> err]

NoCall == [op |-> "none"]

-----------------------------------------------------------------------------
(* The currency registries (js/data/currencies, js/data/walletCurrencies,  *)
(* js/data/cryptoListingCurrencies): static lookups by code.               *)

NotAString == "<not-a-string>"

IsString(s) == s # NotAString

FiatCodes == {"USD"}

WalletCurrencies ==
    { [code |-> "BTC", testnetCode |-> "TBTC", coinDivisibility |-> 8],
      [code |-> "LTC", testnetCode |-> "TLTC", coinDivisibility |-> 8],
      [code |-> "ETH", testnetCode |-> "TETH", coinDivisibility |-> 18] }

CryptoListingCurs == {"BTC", "ETH", "ZEC"}

\* String.prototype.toUpperCase on the strings of the model.
ToUpperCase(s) ==
    CASE s = "btc" -> "BTC"
      [] s = "usd" -> "USD"
      [] s = "ltc" -> "LTC"
      [] OTHER -> s

\* getCurrencyByCode of walletCurrencies: by mainnet or test-network code.
WalletCursByCode(cur) ==
    {w \in WalletCurrencies : w.code = cur \/ w.testnetCode = cur}

IsWalletCode(cur) == WalletCursByCode(cur) # {}

getWalletCurByCode(cur) == CHOOSE w \in WalletCursByCode(cur) : TRUE

\* The canonical code used for exchange-rate lookups (TBTC -> BTC).
ensureMainnetCode(cur) ==
    IF \E w \in WalletCurrencies : w.testnetCode = cur
    THEN (CHOOSE w \in WalletCurrencies : w.testnetCode = cur).code
    ELSE cur

\* currency.js:55-85
getCurMeta(currency) ==
    IF ~IsString(currency) \/ currency = "" THEN Throw("Error")
    ELSE LET cur == ToUpperCase(currency)
             isFiat == cur \in FiatCodes
             isCryptoListingCur == cur \in CryptoListingCurs
             isWalletCur == IsWalletCode(cur)
         IN  IF ~(isFiat \/ isCryptoListingCur \/ isWalletCur)
             THEN Throw("UnrecognizedCurrencyError")
             ELSE Ok([isFiat |-> isFiat,
                      isWalletCur |-> isWalletCur,
                      isCryptoListingCur |-> isCryptoListingCur])

-----------------------------------------------------------------------------
(* The exchange-rate cache.  A table is a function from the codes it holds *)
(* to their rates; a lookup gives <<rate>>, or << >> for undefined.        *)

\* The codes a response of the exchange-rate endpoint may hold, and the rates.
RespCodes == {"BTC", "USD"}
Rates == {0, 1, 2}

Responses == UNION {[S -> Rates] : S \in SUBSET RespCodes}

EmptyTable == [k \in {} |-> 0]

\* obj[key]
Lookup(obj, key) == IF key \in DOMAIN obj THEN <<obj[key]>> ELSE << >>

\* !value, for undefined and for a number
Falsy(v) == v = << >> \/ v[1] = 0

\* { [coin]: 1, ...data }: the response's own value of the coin wins.
SpreadWithCoinFirst(data, coin) ==
    [k \in DOMAIN data \cup {coin} |-> IF k \in DOMAIN data THEN data[k] ELSE 1]

\* { ...data, [coin]: 1 }
SpreadWith(data, coin) ==
    [k \in DOMAIN data \cup {coin} |-> IF k = coin THEN 1 ELSE data[k]]

\* JSON.parse(JSON.stringify(obj)) of a table of finite numbers: a copy that
\* holds a key exactly when its value is defined.
JsonCopy(obj) == [k \in {j \in DOMAIN obj : Lookup(obj, j) # << >>} |-> obj[k]]

\* The order in which the keys of the model are enumerated.
KeyOrder == <<"BTC", "LTC", "USD", "undefined">>

RECURSIVE InOrder(_, _)
InOrder(S, i) ==
    IF i > Len(KeyOrder) THEN << >>
    ELSE (IF KeyOrder[i] \in S THEN <<KeyOrder[i]>> ELSE << >>) \o InOrder(S, i + 1)

\* Array.from(set)
ArrayFrom(S) == InOrder(S, 1)

SeqRange(s) == {s[i] : i \in 1..Len(s)}

\* What supportedWalletCurs() may return.  At least one wallet currency is
\* supported: with none the request is for ob/exchangerates/undefined, which
\* is the rate endpoint of no coin.
SupportedConfigs == {<<"TBTC">>, <<"LTC", "BTC">>, <<"TLTC", "ETH">>}

\* currency.js:456-464: the coin the request is keyed on.
PivotCoin(curs) ==
    IF Len(curs) = 0 THEN Undefined
    ELSE IF "BTC" \in SeqRange(curs) \/ "TBTC" \in SeqRange(curs) THEN "BTC"
    ELSE ensureMainnetCode(curs[1])

\* currency.js:468-482: the codes whose value differs between the table and data.
ChangedSet(old, data) ==
    {cur \in DOMAIN old : Lookup(old, cur) # Lookup(data, cur)}
    \cup {cur \in DOMAIN data : Lookup(data, cur) # Lookup(old, cur)}

Event(name, changed, cur, previous) ==
    [name |-> name, changed |-> changed, cur |-> cur, previous |-> previous]

NoEvent == Event("", {}, "", << >>)

\* PerCodeEvents with the last changed code left out.
PerCodeEventsSkipLast(changedArray, prevExchangeRates) ==
    [i \in 1..(Len(changedArray) - 1) |->
        Event("exchange-rate-change-", {}, changedArray[i],
              Lookup(prevExchangeRates, changedArray[i]))]

\* currency.js:493-495
PerCodeEvents(changedArray, prevExchangeRates) ==
    [i \in 1..Len(changedArray) |->
        Event("exchange-rate-change-", {}, changedArray[i],
              Lookup(prevExchangeRates, changedArray[i]))]

\* currency.js:491-496
ChangeEvents(changed, prevExchangeRates) ==
    IF changed # {}
    THEN <<Event("exchange-rate-change", changed, "", << >>)>>
         \o PerCodeEvents(ArrayFrom(changed), prevExchangeRates)
    ELSE << >>

Init ==
    /\ exchangeRates = EmptyTable
    /\ supportedCurs \in SupportedConfigs
    /\ pending = << >>
    /\ emitted = << >>
    /\ call = NoCall

(***************************************************************************)
(* A request in flight holds the coin its handler closed over, and three   *)
(* history fields: whether the table was still empty when it was issued,   *)
(* whether a success handler has run since, and whether that was the       *)
(* handler of a request issued after this one.                             *)
(***************************************************************************)
Request(coin, issuedEmpty) ==
    [coin |-> coin, issuedEmpty |-> issuedEmpty, doneSince |-> FALSE,
     overtaken |-> FALSE]

\* currency.js:455-466,499-501: the request is issued and announced.
FetchExchangeRates ==
    /\ Len(pending) < MaxInFlight
    /\ pending' = Append(pending, Request(PivotCoin(supportedCurs),
                                          exchangeRates = EmptyTable))
    /\ emitted' = <<Event("fetching-exchange-rates", {}, "", << >>)>>
    /\ call' = [op |-> "fetchExchangeRates"]
    /\ UNCHANGED <<exchangeRates, supportedCurs>>

Remove(s, i) == [j \in 1..(Len(s) - 1) |-> IF j < i THEN s[j] ELSE s[j + 1]]

MarkDone(s) == [j \in 1..Len(s) |-> [s[j] EXCEPT !.doneSince = TRUE]]

\* The requests issued before the i-th one see it complete before them.
MarkOvertaken(s, i) ==
    [j \in 1..Len(s) |-> IF j < i THEN [s[j] EXCEPT !.overtaken = TRUE] ELSE s[j]]

\* The statements of the handler that write the table or trigger an event.
Assign(table) == [stmt |-> "assign", table |-> table, event |-> NoEvent]
Trigger(event) == [stmt |-> "trigger", table |-> EmptyTable, event |-> event]

Triggers(events) == [i \in 1..Len(events) |-> Trigger(events[i])]

\* The handler with its events triggered before the table is replaced.
HandlerStepsTriggerFirst(data, coin, changed, prevExchangeRates) ==
    Triggers(ChangeEvents(changed, prevExchangeRates))
    \o <<Assign(SpreadWith(data, coin))>>

\* currency.js:486-496: the table is replaced, then the events are triggered.
HandlerSteps(data, coin, changed, prevExchangeRates) ==
    <<Assign(SpreadWith(data, coin))>>
    \o Triggers(ChangeEvents(changed, prevExchangeRates))

\* The statements run in order from a table: the table they leave, the
\* events they trigger, and the table the cache holds at each trigger, which
\* is what a listener reading the cache sees.
RECURSIVE RunHandler(_, _)
RunHandler(steps, table) ==
    IF steps = << >>
    THEN [table |-> table, emitted |-> << >>, seen |-> << >>]
    ELSE LET step == Head(steps) IN
         IF step.stmt = "assign" THEN RunHandler(Tail(steps), step.table)
         ELSE LET rest == RunHandler(Tail(steps), table) IN
              [table |-> rest.table,
               emitted |-> <<step.event>> \o rest.emitted,
               seen |-> <<table>> \o rest.seen]

\* FetchDone with the response of an overtaken request dropped: the handler
\* of a request that a later one has completed before leaves the table alone.
FetchDoneDropsStale ==
    \E i \in 1..Len(pending), data \in Responses :
        LET coin == pending[i].coin
            changed == ChangedSet(exchangeRates, data)
            prevExchangeRates == JsonCopy(exchangeRates)
            steps == IF pending[i].overtaken THEN << >>
                     ELSE HandlerSteps(data, coin, changed, prevExchangeRates)
        IN  \E ran \in {RunHandler(steps, exchangeRates)} :
            /\ exchangeRates' = ran.table
            /\ emitted' = ran.emitted
            /\ pending' = MarkDone(Remove(MarkOvertaken(pending, i), i))
            /\ call' = [op |-> "done", data |-> data, coin |-> coin,
                        previous |-> exchangeRates, seen |-> ran.seen,
                        overtaken |-> pending[i].overtaken]
            /\ UNCHANGED supportedCurs

\* currency.js:467-497: the success handler of one fetch.
FetchDone ==
    \E i \in 1..Len(pending), data \in Responses :
        LET coin == pending[i].coin
            changed == ChangedSet(exchangeRates, data)
            prevExchangeRates == JsonCopy(exchangeRates)
        IN  \E ran \in {RunHandler(HandlerSteps(data, coin, changed,
                                                 prevExchangeRates),
                                    exchangeRates)} :
            /\ exchangeRates' = ran.table
            /\ emitted' = ran.emitted
            /\ pending' = MarkDone(Remove(MarkOvertaken(pending, i), i))
            /\ call' = [op |-> "done", data |-> data, coin |-> coin,
                        previous |-> exchangeRates, seen |-> ran.seen,
                        overtaken |-> pending[i].overtaken]
            /\ UNCHANGED supportedCurs

\* FetchFail with a failure handler that resets the table.
FetchFailClears ==
    \E i \in 1..Len(pending) :
        /\ pending' = Remove(pending, i)
        /\ emitted' = << >>
        /\ exchangeRates' = EmptyTable
        /\ call' = [op |-> "fail", issuedEmpty |-> pending[i].issuedEmpty,
                    doneSince |-> pending[i].doneSince]
        /\ UNCHANGED supportedCurs

\* A fetch that fails: the source registers no handler for it.
FetchFail ==
    \E i \in 1..Len(pending) :
        /\ pending' = Remove(pending, i)
        /\ emitted' = << >>
        /\ call' = [op |-> "fail", issuedEmpty |-> pending[i].issuedEmpty,
                    doneSince |-> pending[i].doneSince]
        /\ UNCHANGED <<exchangeRates, supportedCurs>>

-----------------------------------------------------------------------------
(* Reads of the cache.                                                     *)

\* bignumber.js rounds every division to DECIMAL_PLACES decimals (its default).
DECIMAL_PLACES == 20

\* x / r for a rate r that divides a power of ten, exact.
DivRate(x, r) ==
    CASE r = 1 -> x
      [] r = 2 -> Dec(x.c * 5, x.e - 1)
      [] r = 5 -> Dec(x.c * 2, x.e - 1)

MulRate(x, r) == Dec(x.c * r, x.e)

\* currency.js:508-516
getExchangeRate(currency) ==
    IF ~IsString(currency) \/ currency = "" THEN Throw("Error")
    ELSE LET meta == getCurMeta(currency) IN
         IF meta.kind = "error" THEN meta
         ELSE LET cur == IF meta.val.isFiat THEN currency
                         ELSE ensureMainnetCode(currency)
              IN  Ok(Lookup(exchangeRates, cur))

\* currency.js:522-524
getExchangeRates == Ok(exchangeRates)

\* convertByRates with a plain Error thrown for a missing toCur rate.
convertByRatesPlainError(amount, fromCur, toCur, fromCurCode, toCurCode) ==
    IF Falsy(Lookup(exchangeRates, fromCurCode)) THEN Throw("NoExchangeRateDataError")
    ELSE IF Falsy(Lookup(exchangeRates, toCurCode)) THEN Throw("Error")
    ELSE Ok(amount)

\* currency.js:564-586: the conversion proper, once the codes are known to differ.
convertByRates(amount, fromCur, toCur, fromCurCode, toCurCode) ==
    IF Falsy(Lookup(exchangeRates, fromCurCode)) THEN Throw("NoExchangeRateDataError")
    ELSE IF Falsy(Lookup(exchangeRates, toCurCode)) THEN Throw("NoExchangeRateDataError")
    ELSE LET fromRate == getExchangeRate(fromCurCode)
             toRate == getExchangeRate(toCurCode)
         IN  IF fromRate.kind = "error" THEN fromRate
             ELSE IF toRate.kind = "error" THEN toRate
             ELSE IF amount.t = "string"
             THEN Ok(Str(Norm(MulRate(
                     RoundHalfUp(DivRate(amount.v, fromRate.val[1]), DECIMAL_PLACES),
                     toRate.val[1]))))
             ELSE Ok(Num(Norm(MulRate(DivRate(amount.v, fromRate.val[1]),
                                      toRate.val[1]))))

\* convertCurrency with the codes compared as given, not in canonical form.
convertCurrencyRawCompare(amount, fromCur, toCur) ==
    IF amount.t \notin {"number", "string"} THEN Throw("Error")
    ELSE IF amount.nan THEN Throw("Error")
    ELSE IF ~IsString(fromCur) THEN Throw("Error")
    ELSE IF ~IsString(toCur) THEN Throw("Error")
    ELSE IF fromCur = toCur THEN Ok(amount)
    ELSE convertByRates(amount, fromCur, toCur,
                        ensureMainnetCode(ToUpperCase(fromCur)),
                        ensureMainnetCode(ToUpperCase(toCur)))

\* currency.js:529-587
convertCurrency(amount, fromCur, toCur) ==
    IF amount.t \notin {"number", "string"} THEN Throw("Error")
    ELSE IF amount.nan THEN Throw("Error")
    ELSE IF ~IsString(fromCur) THEN Throw("Error")
    ELSE IF ~IsString(toCur) THEN Throw("Error")
    ELSE LET fromCurCode == ensureMainnetCode(ToUpperCase(fromCur))
             toCurCode == ensureMainnetCode(ToUpperCase(toCur))
         IN  IF fromCurCode = toCurCode THEN Ok(amount)
             ELSE convertByRates(amount, fromCur, toCur, fromCurCode, toCurCode)

\* getCurrencyByCode of js/data/currencies, wallet currencies included.
HasCurrencyData(cur) == cur \in FiatCodes \/ IsWalletCode(cur)

\* currency.js:639-655
getCurrencyValidity(cur) ==
    IF ~IsString(cur) THEN Throw("Error")
    ELSE IF HasCurrencyData(cur)
    THEN LET rate == getExchangeRate(ensureMainnetCode(cur)) IN
         IF rate.kind = "error" THEN rate
         ELSE IF Falsy(rate.val) THEN Ok("EXCHANGE_RATE_MISSING") ELSE Ok("VALID")
    ELSE Ok("UNRECOGNIZED_CURRENCY")

\* The arguments the reads are called with.
ReadCodes == {"TBTC", "usd", "ZEC", "XYZ", "", NotAString}
ConvertCodes == {"TBTC", "btc", "USD"}
ConvertAmounts == {Num(Dec(2, 0)), Str(Dec(150, -2)), StrNaN}

\* A step that only reads: the table, the requests and the history stay.
ReadFrame ==
    /\ emitted' = << >>
    /\ UNCHANGED <<exchangeRates, supportedCurs, pending>>

GetExchangeRate ==
    \E currency \in ReadCodes :
        /\ call' = [op |-> "getExchangeRate", currency |-> currency,
                    ret |-> getExchangeRate(currency)]
        /\ ReadFrame

GetExchangeRates ==
    /\ call' = [op |-> "getExchangeRates", ret |-> getExchangeRates]
    /\ ReadFrame

ConvertCurrency ==
    \E amount \in ConvertAmounts, fromCur \in ConvertCodes, toCur \in ConvertCodes :
        /\ call' = [op |-> "convertCurrency", amount |-> amount,
                    fromCur |-> fromCur, toCur |-> toCur,
                    ret |-> convertCurrency(amount, fromCur, toCur)]
        /\ ReadFrame

GetCurrencyValidity ==
    \E cur \in ReadCodes :
        /\ call' = [op |-> "getCurrencyValidity", cur |-> cur,
                    ret |-> getCurrencyValidity(cur)]
        /\ ReadFrame


-----------------------------------------------------------------------------
(* The base-unit converter.                                                *)

IsIntegerDec(x) == Norm(x).e >= 0

\* currency.js:45-50
isValidCoinDivisibility(coinDivisibility) ==
    /\ coinDivisibility.t = "number"
    /\ ~coinDivisibility.nan
    /\ IsIntegerDec(coinDivisibility.v)
    /\ coinDivisibility.v.c > 0

\* The integer a valid divisibility holds.
IntOf(x) == Norm(x).c * Pow10(Norm(x).e)

\* bigNumber(value).toString(): the canonical text of the number.
BigNumberToString(x) == Str(Norm(x))

\* currency.js:171-189
decimalToInteger(value, divisibility) ==
    IF value.t \notin {"number", "string"} THEN Throw("Error")
    ELSE IF ~isValidCoinDivisibility(divisibility) THEN Throw("Error")
    ELSE IF value.nan THEN Ok(StrNaN)
    ELSE Ok(BigNumberToString(
                RoundHalfUp(Shift(value.v, IntOf(divisibility.v)), 0)))

\* currency.js:213-234: the body of the try block.
integerToDecimalTry(value, divisibility) ==
    IF value.t \notin {"number", "string"} THEN Throw("Error")
    ELSE IF ~isValidCoinDivisibility(divisibility) THEN Throw("Error")
    ELSE IF value.nan THEN Throw("Error")
    ELSE Ok(BigNumberToString(
                RoundHalfUp(Shift(value.v, 0 - IntOf(divisibility.v)),
                            DECIMAL_PLACES)))

\* currency.js:205-244
integerToDecimal(value, divisibility, returnUndefinedOnError) ==
    LET tried == integerToDecimalTry(value, divisibility) IN
    IF tried.kind = "error" /\ returnUndefinedOnError THEN Ok(JsUndefined)
    ELSE tried

\* The arguments the converters are called with.
UnitCoefficients == {1, 5, 15, 149, 2500}

UnitValues ==
    {Num(Dec(c, 0 - k)) : c \in UnitCoefficients, k \in 0..MaxAmountDecimals}
    \cup {Str(Dec(c, 0 - k)) : c \in UnitCoefficients, k \in 0..MaxAmountDecimals}
    \cup {Num(Zero), NumNaN, StrNaN, JsUndefined}

Divisibilities ==
    {Num(Dec(d, 0)) : d \in 0..MaxDivisibility}
    \cup {Num(Dec(15, -1)), Num(Dec(-1, 0)), Str(Dec(8, 0)), JsUndefined}

\* What a call leaves for the next one to be chained to.
Summary(c) ==
    IF c.op \in {"input", "decimalToInteger", "integerToDecimal"}
    THEN [op |-> c.op, value |-> c.value, divisibility |-> c.divisibility]
    ELSE NoCall

\* A call of a pure function leaves the cache, the requests and the events alone.
PureFrame == UNCHANGED <<exchangeRates, supportedCurs, pending, emitted>>

InitPure ==
    /\ exchangeRates = EmptyTable
    /\ supportedCurs = <<"TBTC">>
    /\ pending = << >>
    /\ emitted = << >>

\* The arguments of a run of the converters.
InitBaseUnit ==
    /\ InitPure
    /\ \E value \in UnitValues, divisibility \in Divisibilities :
          call = [op |-> "input", value |-> value, divisibility |-> divisibility]

\* The value a converter is applied to: the input, or what the other
\* converter returned for the input.
Feeds(c, op) ==
    \/ c.op = "input"
    \/ c.op = op /\ c.prev.op = "input" /\ c.ret.kind = "ok"

Fed(c) == IF c.op = "input" THEN c.value ELSE c.ret.val

DecimalToInteger ==
    /\ Feeds(call, "integerToDecimal")
    /\ call' = [op |-> "decimalToInteger", value |-> Fed(call),
                divisibility |-> call.divisibility,
                ret |-> decimalToInteger(Fed(call), call.divisibility),
                prev |-> Summary(call)]
    /\ PureFrame

IntegerToDecimal ==
    /\ Feeds(call, "decimalToInteger")
    /\ \E returnUndefinedOnError \in BOOLEAN :
          call' = [op |-> "integerToDecimal", value |-> Fed(call),
                   divisibility |-> call.divisibility,
                   returnUndefinedOnError |-> returnUndefinedOnError,
                   ret |-> integerToDecimal(Fed(call), call.divisibility,
                                            returnUndefinedOnError),
                   prev |-> Summary(call)]
    /\ PureFrame

NextBaseUnit == DecimalToInteger \/ IntegerToDecimal

SpecBaseUnit == InitBaseUnit /\ [][NextBaseUnit]_vars

-----------------------------------------------------------------------------
(* The coin divisibility resolver.                                         *)

\* A wallet-currency definition (code -> divisibility), or none given.
NoDef == [given |-> FALSE, def |-> EmptyTable]
Def(f) == [given |-> TRUE, def |-> f]

\* getCoinDivisibility that turns to the process-wide definition whenever
\* the per-call one lacks the code.
getCoinDivisibilityFallsBack(currency, optionsWalletCurDef, appWalletCurDef) ==
    IF ~IsString(currency) \/ currency = "" THEN Throw("Error")
    ELSE IF ~optionsWalletCurDef.given /\ ~appWalletCurDef.given THEN Throw("Error")
    ELSE IF currency \in DOMAIN optionsWalletCurDef.def
    THEN Ok(optionsWalletCurDef.def[currency])
    ELSE IF currency \in DOMAIN appWalletCurDef.def
    THEN Ok(appWalletCurDef.def[currency])
    ELSE LET curMeta == getCurMeta(currency) IN
         IF curMeta.kind = "error" THEN curMeta
         ELSE IF curMeta.val.isFiat THEN Ok(2)
         ELSE IF curMeta.val.isWalletCur
         THEN Ok(getWalletCurByCode(ToUpperCase(currency)).coinDivisibility)
         ELSE Ok(8)

\* currency.js:91
defaultCryptoCoinDivisibility == 8

\* currency.js:103-138; appWalletCurDef is app.walletCurDef.
getCoinDivisibility(currency, optionsWalletCurDef, appWalletCurDef) ==
    IF ~IsString(currency) \/ currency = "" THEN Throw("Error")
    ELSE LET walletCurDef == IF optionsWalletCurDef.given THEN optionsWalletCurDef
                             ELSE appWalletCurDef
         IN  IF ~walletCurDef.given THEN Throw("Error")
             ELSE IF currency \in DOMAIN walletCurDef.def
             THEN Ok(walletCurDef.def[currency])
             ELSE LET curMeta == getCurMeta(currency) IN
                  IF curMeta.kind = "error" THEN curMeta
                  ELSE IF curMeta.val.isFiat THEN Ok(2)
                  ELSE IF curMeta.val.isWalletCur
                  THEN Ok(getWalletCurByCode(ToUpperCase(currency)).coinDivisibility)
                  ELSE IF curMeta.val.isCryptoListingCur
                  THEN Ok(defaultCryptoCoinDivisibility)
                  ELSE Throw("UnrecognizedCurrencyError")

\* The arguments the resolver is called with.
DivisibilityCodes == {"USD", "usd", "BTC", "ETH", "ZEC", "XYZ", "", NotAString}
DefCodes == {"USD", "ETH", "XYZ"}
DefDivisibilities == {3, 6}
WalletCurDefs ==
    {NoDef} \cup {Def(f) : f \in UNION {[S -> DefDivisibilities] : S \in SUBSET DefCodes}}

InitDivisibility ==
    /\ InitPure
    /\ \E currency \in DivisibilityCodes, o \in WalletCurDefs, a \in WalletCurDefs :
          call = [op |-> "input", currency |-> currency,
                  optionsWalletCurDef |-> o, appWalletCurDef |-> a]

GetCoinDivisibility ==
    /\ call.op = "input"
    /\ call' = [op |-> "getCoinDivisibility", currency |-> call.currency,
                optionsWalletCurDef |-> call.optionsWalletCurDef,
                appWalletCurDef |-> call.appWalletCurDef,
                ret |-> getCoinDivisibility(call.currency, call.optionsWalletCurDef,
                                            call.appWalletCurDef)]
    /\ PureFrame

NextDivisibility == GetCoinDivisibility

SpecDivisibility == InitDivisibility /\ [][NextDivisibility]_vars

-----------------------------------------------------------------------------
(* The display formatter.                                                  *)

\* preciseRound of js/utils/number: the amount rounded to the given decimals.
preciseRound(amount, decimals) == RoundHalfUp(amount, decimals)

\* x < 10^-decimals, for an x that is a multiple of 10^-decimals.
BelowUnit(x, decimals) == x.c < 1

\* currency.js:246-253
isFormattedResultZero(amount, maxDecimals) ==
    IF maxDecimals = 0 THEN TRUE
    ELSE IF amount.nan THEN FALSE
    ELSE BelowUnit(preciseRound(amount.v, maxDecimals), maxDecimals)

\* currency.js:256
MAX_NUMBER_FORMAT_DISPLAY_DECIMALS == 20

\* currency.js:281-288: the while loop.
RECURSIVE ExtendMax(_, _)
ExtendMax(amount, max) ==
    IF isFormattedResultZero(amount, max) /\ max < MAX_NUMBER_FORMAT_DISPLAY_DECIMALS
    THEN ExtendMax(amount, max + 1)
    ELSE max

\* getMaxDisplayDigits without its early return for a desired maximum of 0.
getMaxDisplayDigitsExtendsZero(amount, desiredMax) ==
    IF amount.t \notin {"number", "string"} THEN Throw("Error")
    ELSE IF amount.t = "number" /\ ~amount.nan /\ amount.v.c = 0 THEN Ok(desiredMax)
    ELSE Ok(ExtendMax(amount, desiredMax))

\* currency.js:261-289
getMaxDisplayDigits(amount, desiredMax) ==
    IF amount.t \notin {"number", "string"} THEN Throw("Error")
    ELSE IF amount.t = "number" /\ ~amount.nan /\ amount.v.c = 0 THEN Ok(desiredMax)
    ELSE IF desiredMax = 0 THEN Ok(0)
    ELSE Ok(ExtendMax(amount, desiredMax))

\* An option that is a number, or is not given.
NoNumber == [given |-> FALSE, n |-> 0]
Given(n) == [given |-> TRUE, n |-> n]

\* The options of the formatter.
FormatOptions(maxDisplayDecimals, extendMaxDecimalsOnZero, appWalletCurDef) ==
    [maxDisplayDecimals |-> maxDisplayDecimals,
     extendMaxDecimalsOnZero |-> extendMaxDecimalsOnZero,
     appWalletCurDef |-> appWalletCurDef]

\* amount > 0
GreaterThanZero(amount) ==
    amount.t \in {"number", "string"} /\ ~amount.nan /\ amount.v.c > 0

\* currency.js:363-371: the maximum of display decimals to start from.
StartingMax(cur, maxDisplayDecimals, appWalletCurDef) ==
    IF maxDisplayDecimals.given THEN maxDisplayDecimals.n
    ELSE LET divisibility == getCoinDivisibility(cur, NoDef, appWalletCurDef) IN
         IF divisibility.kind = "error" THEN defaultCryptoCoinDivisibility
         ELSE divisibility.val

\* currency.js:373-384: the maximum of display decimals that is used.
UsedMax(amount, startingMax, extendMaxDecimalsOnZero) ==
    LET extended ==
            IF GreaterThanZero(amount) /\ extendMaxDecimalsOnZero
            THEN getMaxDisplayDigits(amount, startingMax).val
            ELSE startingMax
    IN  IF extended > MAX_NUMBER_FORMAT_DISPLAY_DECIMALS
        THEN MAX_NUMBER_FORMAT_DISPLAY_DECIMALS
        ELSE extended

(***************************************************************************)
(* currency.js:300-446, with the default unit (BTC) and the default        *)
(* minDisplayDecimals.  The result is what Intl.NumberFormat is asked to   *)
(* format; the text it makes of it, and the symbol polyglot adds, are the  *)
(* host's.  The options carry maxDisplayDecimals, extendMaxDecimalsOnZero   *)
(* and, with them, the process-wide wallet currency definition the         *)
(* formatter reads.                                                        *)
(***************************************************************************)
formatCurrency(amount, currency, options) ==
    IF ~IsString(currency) THEN Throw("Error")
    ELSE LET cur == ToUpperCase(currency)
             curMeta == getCurMeta(cur)
         IN  IF curMeta.kind = "error" /\ curMeta.val # "UnrecognizedCurrencyError"
             THEN Ok([text |-> ""])
             ELSE LET isFiat == curMeta.kind = "ok" /\ curMeta.val.isFiat
                      startingMax == StartingMax(cur, options.maxDisplayDecimals,
                                                 options.appWalletCurDef)
                  IN  Ok([text |-> "formatted",
                          amount |-> amount,
                          cur |-> cur,
                          minimumFractionDigits |-> IF isFiat THEN 2 ELSE 0,
                          startingMax |-> startingMax,
                          maximumFractionDigits |->
                              UsedMax(amount, startingMax,
                                      options.extendMaxDecimalsOnZero)])

\* The arguments the formatter is called with.
FormatCoefficients == {1, 4, 5, 15}

FormatAmounts ==
    {Num(Dec(c, 0 - k)) : c \in FormatCoefficients, k \in 0..MaxAmountDecimals}
    \cup {Num(Dec(0 - c, 0 - k)) : c \in {1, 5}, k \in 0..MaxAmountDecimals}
    \cup {Str(Dec(c, 0 - k)) : c \in {1, 5}, k \in 0..MaxAmountDecimals}
    \cup {Num(Zero), Str(Zero), NumNaN}

FormatCodes == {"BTC", "USD", "ETH", "XYZ", "", NotAString}

MaxOptions == {NoNumber} \cup {Given(n) : n \in 0..MaxDesiredMax}

FormatDefs == {NoDef, Def([k \in {"BTC"} |-> 8])}

InitFormat ==
    /\ InitPure
    /\ \E amount \in FormatAmounts, currency \in FormatCodes,
          maxDisplayDecimals \in MaxOptions,
          extendMaxDecimalsOnZero \in BOOLEAN, appWalletCurDef \in FormatDefs :
          call = [op |-> "input", amount |-> amount, currency |-> currency,
                  maxDisplayDecimals |-> maxDisplayDecimals,
                  extendMaxDecimalsOnZero |-> extendMaxDecimalsOnZero,
                  appWalletCurDef |-> appWalletCurDef]

FormatCurrency ==
    /\ call.op = "input"
    /\ call' = [op |-> "formatCurrency", amount |-> call.amount,
                currency |-> call.currency,
                maxDisplayDecimals |-> call.maxDisplayDecimals,
                extendMaxDecimalsOnZero |-> call.extendMaxDecimalsOnZero,
                ret |-> formatCurrency(
                            call.amount, call.currency,
                            FormatOptions(call.maxDisplayDecimals,
                                          call.extendMaxDecimalsOnZero,
                                          call.appWalletCurDef))]
    /\ PureFrame

NextFormat == FormatCurrency

SpecFormat == InitFormat /\ [][NextFormat]_vars

\* convertAndFormatCurrency without the fall-back for a result that shows as zero.
convertAndFormatCurrencyKeepsZero(amount, fromCur, toCur, options) ==
    LET converted == convertCurrency(amount, fromCur, toCur)
        failed == converted.kind = "error"
    IN  IF failed /\ ~options.skipConvertOnError THEN converted
        ELSE formatCurrency(IF failed THEN amount ELSE converted.val,
                            IF failed THEN fromCur ELSE toCur,
                            options.format)

\* currency.js:596-633
convertAndFormatCurrency(amount, fromCur, toCur, options) ==
    LET converted == convertCurrency(amount, fromCur, toCur)
        failed == converted.kind = "error"
        convertedAmt == IF failed THEN amount ELSE converted.val
        outputFormat == IF failed THEN fromCur ELSE toCur
        keep == /\ GreaterThanZero(amount)
                /\ options.skipConvertIfResultWillBeZero
                /\ isFormattedResultZero(convertedAmt,
                                         MAX_NUMBER_FORMAT_DISPLAY_DECIMALS)
    IN  IF failed /\ ~options.skipConvertOnError THEN converted
        ELSE formatCurrency(IF keep THEN amount ELSE convertedAmt,
                            IF keep THEN fromCur ELSE outputFormat,
                            options.format)

\* The arguments the formatters are called with while the cache is at work.
DisplayAmounts == {Num(Dec(1, -8))}
DisplayCodes == {"BTC", "USD"}

FormatCurrencyRead ==
    \E amount \in DisplayAmounts, currency \in DisplayCodes :
        /\ call' = [op |-> "formatCurrency", amount |-> amount,
                    currency |-> currency,
                    maxDisplayDecimals |-> Given(2),
                    extendMaxDecimalsOnZero |-> TRUE,
                    ret |-> formatCurrency(
                                amount, currency,
                                FormatOptions(Given(2), TRUE, NoDef))]
        /\ ReadFrame

ConvertAndFormatCurrency ==
    \E amount \in DisplayAmounts, fromCur \in DisplayCodes,
       skipConvertOnError \in BOOLEAN :
        /\ call' = [op |-> "convertAndFormatCurrency", amount |-> amount,
                    fromCur |-> fromCur, toCur |-> "USD",
                    skipConvertOnError |-> skipConvertOnError,
                    skipConvertIfResultWillBeZero |-> TRUE,
                    ret |-> convertAndFormatCurrency(
                                amount, fromCur, "USD",
                                [skipConvertOnError |-> skipConvertOnError,
                                 skipConvertIfResultWillBeZero |-> TRUE,
                                 format |-> FormatOptions(
                                     NoNumber, FALSE,
                                     Def([k \in {"BTC"} |-> 8]))])]
        /\ ReadFrame

Next ==
    \/ FetchExchangeRates
    \/ FetchDone
    \/ FetchFail
    \/ GetExchangeRate
    \/ GetExchangeRates
    \/ ConvertCurrency
    \/ ConvertAndFormatCurrency
    \/ GetCurrencyValidity
    \/ FormatCurrencyRead

Spec == Init /\ [][Next]_vars

\* The tables the cache can hold: the initial one, and a response with the
\* pivot of the server's configuration set to 1.
TablesOf(curs) ==
    {EmptyTable} \cup {SpreadWith(data, PivotCoin(curs)) : data \in Responses}

\* The arguments convertAndFormatCurrency is called with, over every table.
ConvertFormatAmounts ==
    {Num(Dec(2, 0)), Num(Dec(1, -8)), Num(Dec(1, -21)), Str(Dec(1, -21)),
     Str(Dec(150, -2)), Num(Dec(-2, 0)), Num(Zero), NumNaN, JsUndefined}

ConvertFormatCodes == {"BTC", "TBTC", "USD", "XYZ", "", NotAString}

ConvertFormatOptions(skipConvertOnError, skipConvertIfResultWillBeZero) ==
    [skipConvertOnError |-> skipConvertOnError,
     skipConvertIfResultWillBeZero |-> skipConvertIfResultWillBeZero,
     format |-> FormatOptions(NoNumber, TRUE, Def([k \in {"BTC"} |-> 8]))]

InitConvertFormat ==
    /\ supportedCurs \in SupportedConfigs
    /\ exchangeRates \in TablesOf(supportedCurs)
    /\ pending = << >>
    /\ emitted = << >>
    /\ \E amount \in ConvertFormatAmounts, fromCur \in ConvertFormatCodes,
          toCur \in ConvertFormatCodes, skipConvertOnError \in BOOLEAN,
          skipConvertIfResultWillBeZero \in BOOLEAN :
          call = [op |-> "input", amount |-> amount, fromCur |-> fromCur,
                  toCur |-> toCur,
                  options |-> ConvertFormatOptions(skipConvertOnError,
                                                   skipConvertIfResultWillBeZero)]

ConvertAndFormat ==
    /\ call.op = "input"
    /\ call' = [op |-> "convertAndFormatCurrency", amount |-> call.amount,
                fromCur |-> call.fromCur, toCur |-> call.toCur,
                options |-> call.options,
                ret |-> convertAndFormatCurrency(call.amount, call.fromCur,
                                                 call.toCur, call.options)]
    /\ PureFrame

NextConvertFormat == ConvertAndFormat

SpecConvertFormat == InitConvertFormat /\ [][NextConvertFormat]_vars

-----------------------------------------------------------------------------
(* The listing price (models/listing/Price.js).                            *)

\* Math.round: to the nearest integer, a half towards +Infinity.
MathRound(x) ==
    LET drop == 0 - x.e IN
    IF drop <= 0 THEN x
    ELSE IF drop > MaxCoefDigits THEN Zero
    ELSE LET p == Pow10(drop)
             q == Abs(x.c) \div p
             r == Abs(x.c) % p
         IN  IF x.c >= 0
             THEN Dec(q + (IF 2 * r >= p THEN 1 ELSE 0), 0)
             ELSE Dec(0 - (q + (IF 2 * r > p THEN 1 ELSE 0)), 0)

\* Number(x.toFixed(2)): x to two decimals.
ToFixed2(x) == RoundHalfUp(x, 2)

\* A price-like object, and a value that is not an object.
PriceObject(amount, currencyCode) ==
    [object |-> TRUE, amount |-> amount, currencyCode |-> currencyCode]

NotAnObject == [object |-> FALSE, amount |-> JsUndefined, currencyCode |-> ""]

\* Price.js:41-55
convertPriceOut(price) ==
    IF ~price.object THEN Throw("Error")
    ELSE IF price.amount.t = "number"
    THEN IF price.amount.nan THEN Ok(price)
         ELSE IF price.currencyCode = "BTC"
         THEN Ok([price EXCEPT !.amount = Num(MathRound(Shift(price.amount.v, 9)))])
         ELSE Ok([price EXCEPT !.amount = Num(MathRound(Shift(price.amount.v, 2)))])
    ELSE Ok(price)

\* Price.js:61-75
convertPriceIn(price) ==
    IF ~price.object THEN Throw("Error")
    ELSE IF price.amount.t = "number"
    THEN IF price.amount.nan THEN Ok(price)
         ELSE IF price.currencyCode = "BTC"
         THEN Ok([price EXCEPT !.amount = Num(ToFixed2(Shift(price.amount.v, -9)))])
         ELSE Ok([price EXCEPT !.amount = Num(ToFixed2(Shift(price.amount.v, -2)))])
    ELSE Ok(price)

\* The prices the converters are called with.
PriceAmounts ==
    {Num(Dec(c, 0 - k)) : c \in {1, 2, 12, 199, -12}, k \in 0..MaxPriceDecimals}
    \cup {Num(Zero), NumNaN, Str(Dec(1, 0)), Str(Dec(12, -1)), JsUndefined}

PriceCodes == {"BTC", "USD", "LTC", "btc"}

Prices ==
    {PriceObject(amount, code) : amount \in PriceAmounts, code \in PriceCodes}
    \cup {NotAnObject}

InitPrice ==
    /\ InitPure
    /\ \E price \in Prices : call = [op |-> "input", price |-> price]

\* The price a converter is applied to: the one given, or the one the
\* other converter left for the one given.
PriceFeeds(c, op) ==
    \/ c.op = "input"
    \/ c.op = op /\ c.prev = "input" /\ c.ret.kind = "ok"

PriceFed(c) == IF c.op = "input" THEN c.price ELSE c.ret.val

ConvertPriceOut ==
    /\ PriceFeeds(call, "convertPriceIn")
    /\ call' = [op |-> "convertPriceOut", price |-> PriceFed(call),
                ret |-> convertPriceOut(PriceFed(call)),
                prev |-> call.op,
                original |-> call.price]
    /\ PureFrame

ConvertPriceIn ==
    /\ PriceFeeds(call, "convertPriceOut")
    /\ call' = [op |-> "convertPriceIn", price |-> PriceFed(call),
                ret |-> convertPriceIn(PriceFed(call)),
                prev |-> call.op,
                original |-> call.price]
    /\ PureFrame

NextPrice == ConvertPriceOut \/ ConvertPriceIn

SpecPrice == InitPrice /\ [][NextPrice]_vars

-----------------------------------------------------------------------------
(* Properties of the exchange-rate cache.                                  *)

IsChangeEvent(ev) == ev.name = "exchange-rate-change"
IsPerCodeEvent(ev) == ev.name = "exchange-rate-change-"

GlobalEvents == {i \in 1..Len(emitted) : IsChangeEvent(emitted[i])}
PerCodeEventsOf(cur) ==
    {i \in 1..Len(emitted) : IsPerCodeEvent(emitted[i]) /\ emitted[i].cur = cur}

\* The keys whose value differs between two tables.
TableDiff(a, b) == {k \in DOMAIN a \cup DOMAIN b : Lookup(a, k) # Lookup(b, k)}

(***************************************************************************)
(* C1: after a success handler, exactly one 'exchange-rate-change' event   *)
(* has been emitted if the new table differs from the old one in some key, *)
(* and none if they are equal; the event's changed list is the set of keys *)
(* whose value differs between the old and the new table.                  *)
(***************************************************************************)
C1_ChangeEventIffTableDiffers ==
    call.op = "done" =>
        LET diff == TableDiff(call.previous, exchangeRates) IN
        /\ diff # {} =>
              /\ Cardinality(GlobalEvents) = 1
              /\ \A i \in GlobalEvents : emitted[i].changed = diff
        /\ diff = {} => GlobalEvents = {}

(***************************************************************************)
(* C2: after a success handler that emitted 'exchange-rate-change', there  *)
(* is exactly one per-code event for each code of the changed list and     *)
(* none for any other code, and each carries the value the code had in the *)
(* table right before the handler replaced it (undefined if absent).       *)
(***************************************************************************)
C2_PerCodeEvents ==
    (call.op = "done" /\ GlobalEvents # {}) =>
        \A i \in GlobalEvents :
            /\ \A cur \in emitted[i].changed :
                  /\ Cardinality(PerCodeEventsOf(cur)) = 1
                  /\ \A j \in PerCodeEventsOf(cur) :
                        emitted[j].previous = Lookup(call.previous, cur)
            /\ \A j \in 1..Len(emitted) :
                  IsPerCodeEvent(emitted[j]) => emitted[j].cur \in emitted[i].changed

\* Two codes changed at once, one that had a rate and one that had none.
C2_Witness ==
    /\ call.op = "done"
    /\ GlobalEvents # {}
    /\ \E j, k \in 1..Len(emitted) :
          /\ IsPerCodeEvent(emitted[j]) /\ emitted[j].previous = << >>
          /\ IsPerCodeEvent(emitted[k]) /\ emitted[k].previous # << >>

NoChangeEvents(evs) ==
    \A i \in 1..Len(evs) : ~IsChangeEvent(evs[i]) /\ ~IsPerCodeEvent(evs[i])

(***************************************************************************)
(* C3, as stated: a fetch that fails leaves the table equal to the table   *)
(* before that fetch was issued.  Stated for the fetches issued while the  *)
(* table was still empty: after such a fetch fails the table is empty.     *)
(***************************************************************************)
C3_FailedFetchKeepsIssueTable ==
    (call.op = "fail" /\ call.issuedEmpty) => exchangeRates = EmptyTable

(***************************************************************************)
(* C3, amended: every step but a success handler (issuing a fetch, a       *)
(* failing fetch, every read) leaves the table unchanged and emits no      *)
(* change event; a fetch that fails with no success handler run since it   *)
(* was issued leaves the table as it was when the fetch was issued.        *)
(***************************************************************************)
C3_OnlyDoneWritesTable ==
    /\ [][call'.op # "done" =>
            /\ exchangeRates' = exchangeRates
            /\ NoChangeEvents(emitted')]_vars
    /\ []((call.op = "fail" /\ call.issuedEmpty /\ ~call.doneSince)
            => exchangeRates = EmptyTable)

\* A fetch has failed while the table held rates.
C3_Witness == call.op = "fail" /\ exchangeRates # EmptyTable

\* The pivot coin as C4 words it.
ClaimedPivot ==
    IF \E i \in 1..Len(supportedCurs) : supportedCurs[i] \in {"BTC", "TBTC"}
    THEN "BTC"
    ELSE ensureMainnetCode(supportedCurs[1])

(***************************************************************************)
(* C4: after a success handler the table is the response with the pivot    *)
(* coin's entry set to 1: every other key of the response has the          *)
(* response's value, the pivot maps to 1 whatever the response gives for   *)
(* it, and the table holds no key but these.                               *)
(***************************************************************************)
C4_TableIsResponseWithPivot ==
    call.op = "done" =>
        /\ \A k \in DOMAIN call.data \ {ClaimedPivot} :
              Lookup(exchangeRates, k) = <<call.data[k]>>
        /\ Lookup(exchangeRates, ClaimedPivot) = <<1>>
        /\ DOMAIN exchangeRates = DOMAIN call.data \cup {ClaimedPivot}

\* The response gave the pivot another rate, and dropped a key the table held.
C4_Witness ==
    /\ call.op = "done"
    /\ ClaimedPivot \in DOMAIN call.data
    /\ call.data[ClaimedPivot] # 1
    /\ \E k \in DOMAIN call.previous : k \notin DOMAIN exchangeRates

-----------------------------------------------------------------------------
(* Properties of convertCurrency.                                          *)

ValidAmount(amount) == amount.t \in {"number", "string"} /\ ~amount.nan

Canonical(cur) == ensureMainnetCode(ToUpperCase(cur))

\* The last step was a call of convertCurrency with a valid amount.
ConvertCalled(c) == c.op = "convertCurrency" /\ ValidAmount(c.amount)

RateAbsent(cur) == Lookup(exchangeRates, Canonical(cur)) = << >>
RateZero(cur) == Lookup(exchangeRates, Canonical(cur)) = <<0>>

C6_SameCurrencyIsIdentity ==
    (ConvertCalled(call) /\ Canonical(call.fromCur) = Canonical(call.toCur)) =>
        call.ret = Ok(call.amount)

\* A string amount between a test-network code and a lower-case mainnet code,
\* with no rate of that currency in the table.
C6_Witness ==
    /\ ConvertCalled(call)
    /\ call.amount.t = "string"
    /\ call.fromCur # call.toCur
    /\ ToUpperCase(call.fromCur) # ToUpperCase(call.toCur)
    /\ Canonical(call.fromCur) = Canonical(call.toCur)
    /\ RateAbsent(call.fromCur)
    /\ call.ret = Ok(call.amount)

-----------------------------------------------------------------------------
(* Properties of the base-unit converter.                                  *)

IsPositive(value) == ValidAmount(value) /\ value.v.c > 0

IsNonNegativeIntegerString(value) ==
    value.t = "string" /\ ~value.nan /\ value.v.c >= 0 /\ IsIntegerDec(value.v)

\* The call returned the text of a number equal to x.
ReturnedNumber(c, x) ==
    /\ c.ret.kind = "ok"
    /\ c.ret.val.t = "string"
    /\ ~c.ret.val.nan
    /\ DecEq(c.ret.val.v, x)

(***************************************************************************)
(* C7: for a positive amount and a valid divisibility d,                   *)
(* integerToDecimal(decimalToInteger(amount, d), d) is the amount rounded  *)
(* to d decimals; for a non-negative integer string n,                     *)
(* decimalToInteger(integerToDecimal(n, d), d) is n; and                   *)
(* decimalToInteger(1, 8) is "100000000", integerToDecimal("100000000", 8) *)
(* is "1".  Equality is that of the numbers the strings hold.              *)
(***************************************************************************)
C7_BaseUnitRoundTrip ==
    /\ (/\ call.op = "integerToDecimal"
        /\ call.prev.op = "decimalToInteger"
        /\ IsPositive(call.prev.value))
       => ReturnedNumber(call, RoundHalfUp(call.prev.value.v,
                                           IntOf(call.divisibility.v)))
    /\ (/\ call.op = "decimalToInteger"
        /\ call.prev.op = "integerToDecimal"
        /\ IsNonNegativeIntegerString(call.prev.value))
       => ReturnedNumber(call, call.prev.value.v)
    /\ (/\ call.op = "decimalToInteger"
        /\ call.value = Num(Dec(1, 0))
        /\ call.divisibility = Num(Dec(8, 0)))
       => call.ret = Ok(Str(Dec(1, 8)))
    /\ (/\ call.op = "integerToDecimal"
        /\ call.value = Str(Dec(1, 8))
        /\ call.divisibility = Num(Dec(8, 0)))
       => call.ret = Ok(Str(Dec(1, 0)))

-----------------------------------------------------------------------------
(* Properties of the coin divisibility resolver.                           *)

\* What the registries alone give for a code: steps (3) to (5) and the error.
ByRegistries(currency) ==
    LET cur == ToUpperCase(currency) IN
    IF cur \in FiatCodes THEN Ok(2)
    ELSE IF IsWalletCode(cur)
    THEN Ok((CHOOSE w \in WalletCurrencies :
                w.code = cur \/ w.testnetCode = cur).coinDivisibility)
    ELSE IF cur \in CryptoListingCurs THEN Ok(8)
    ELSE Throw("UnrecognizedCurrencyError")

DivisibilityCalled == call.op = "getCoinDivisibility" /\ call.currency \notin {"", NotAString}

(***************************************************************************)
(* C8, as stated: the per-call definition if it contains the code;         *)
(* otherwise the process-wide definition if it contains the code;          *)
(* otherwise 2 for fiat, the declared divisibility of a wallet currency, 8 *)
(* for a crypto-listing currency, else UnrecognizedCurrencyError; a        *)
(* configuration error only if neither definition is available.            *)
(***************************************************************************)
C8_ResolutionOrderAsStated ==
    DivisibilityCalled =>
        LET o == call.optionsWalletCurDef
            a == call.appWalletCurDef
        IN  call.ret =
              IF ~o.given /\ ~a.given THEN Throw("Error")
              ELSE IF call.currency \in DOMAIN o.def THEN Ok(o.def[call.currency])
              ELSE IF call.currency \in DOMAIN a.def THEN Ok(a.def[call.currency])
              ELSE ByRegistries(call.currency)

(***************************************************************************)
(* C8, amended: the definition consulted is the per-call one when one is   *)
(* given and the process-wide one only when none is given; if the          *)
(* definition consulted contains the code its divisibility is returned;    *)
(* otherwise 2 for fiat, the declared divisibility of a wallet currency, 8 *)
(* for a crypto-listing currency, else UnrecognizedCurrencyError; a        *)
(* configuration error exactly when neither definition is available.       *)
(***************************************************************************)
C8_ResolutionOrder ==
    DivisibilityCalled =>
        LET o == call.optionsWalletCurDef
            a == call.appWalletCurDef
        IN  /\ (~o.given /\ ~a.given) <=> call.ret = Throw("Error")
            /\ (o.given /\ call.currency \in DOMAIN o.def)
                  => call.ret = Ok(o.def[call.currency])
            /\ (o.given /\ call.currency \notin DOMAIN o.def)
                  => call.ret = ByRegistries(call.currency)
            /\ (~o.given /\ a.given /\ call.currency \in DOMAIN a.def)
                  => call.ret = Ok(a.def[call.currency])
            /\ (~o.given /\ a.given /\ call.currency \notin DOMAIN a.def)
                  => call.ret = ByRegistries(call.currency)

\* A per-call definition without the code hides a process-wide one that has it.
C8_Witness ==
    /\ DivisibilityCalled
    /\ call.optionsWalletCurDef.given
    /\ call.currency \notin DOMAIN call.optionsWalletCurDef.def
    /\ call.currency \in DOMAIN call.appWalletCurDef.def
    /\ call.ret = ByRegistries(call.currency)
    /\ call.ret # Ok(call.appWalletCurDef.def[call.currency])

-----------------------------------------------------------------------------
(* Properties of the display formatter.                                    *)

\* formatCurrency was called to extend the decimals, and formatted.
FormatExtending ==
    /\ call.op = "formatCurrency"
    /\ call.extendMaxDecimalsOnZero
    /\ call.ret.kind = "ok"
    /\ call.ret.val.text = "formatted"
    /\ ValidAmount(call.amount)
    /\ call.ret.val.startingMax \in 0..20

RoundsToZero(amount, m) == IsZeroDec(RoundHalfUp(amount.v, m))

\* The smallest m in M..20 at which the amount does not round to zero, or 20.
SmallestNonZeroMax(amount, M) ==
    LET nonzero == {m \in M..20 : ~RoundsToZero(amount, m)} IN
    IF nonzero = {} THEN 20
    ELSE CHOOSE m \in nonzero : \A n \in nonzero : m <= n

-----------------------------------------------------------------------------
(* Properties of the listing price.                                        *)

\* The number of decimal places of x.
DecimalPlaces(x) == IF Norm(x).e >= 0 THEN 0 ELSE 0 - Norm(x).e

IsNumber(amount) == amount.t = "number" /\ ~amount.nan

\* The price given is within the places the round trip is stated for.
WithinPlaces(price) ==
    /\ price.object
    /\ IsNumber(price.amount)
    /\ DecimalPlaces(price.amount.v)
          <= (IF price.currencyCode = "BTC" THEN 9 ELSE 2)

(***************************************************************************)
(* C10: convertPriceOut sets a numeric amount to round(amount * 10^9) for  *)
(* BTC and to round(amount * 10^2) for every other code; convertPriceIn    *)
(* of that result restores the amount given, when it has at most 9 (BTC)   *)
(* or 2 (other codes) decimal places; both return a price whose amount is  *)
(* not a number unchanged.                                                 *)
(***************************************************************************)
C10_PriceRoundTrip ==
    /\ (call.op = "convertPriceOut" /\ call.price.object
           /\ IsNumber(call.price.amount))
          => /\ call.ret.kind = "ok"
             /\ DecEq(call.ret.val.amount.v,
                      MathRound(Shift(call.price.amount.v,
                                      IF call.price.currencyCode = "BTC"
                                      THEN 9 ELSE 2)))
    /\ (call.op = "convertPriceIn" /\ call.prev = "convertPriceOut"
           /\ WithinPlaces(call.original))
          => /\ call.ret.kind = "ok"
             /\ DecEq(call.ret.val.amount.v, call.original.amount.v)
    /\ (call.op \in {"convertPriceOut", "convertPriceIn"} /\ call.price.object
           /\ call.price.amount.t # "number")
          => call.ret = Ok(call.price)

-----------------------------------------------------------------------------
(* Properties of convertAndFormatCurrency.                                 *)

ConvertFormatCalled == call.op = "convertAndFormatCurrency" /\ "options" \in DOMAIN call

\* The result is the given amount formatted in the given currency.
Formats(ret, amount, cur) ==
    /\ ret.kind = "ok"
    /\ ret.val.text = "formatted"
    /\ ret.val.amount = amount
    /\ ret.val.cur = ToUpperCase(cur)

\* What formatting the amount in the currency gives: an Error for a currency
\* that is not a string, '' for the empty string.
FormatsOrRefuses(ret, amount, cur) ==
    IF ~IsString(cur) THEN ret = Throw("Error")
    ELSE IF cur = "" THEN ret = Ok([text |-> ""])
    ELSE Formats(ret, amount, cur)

\* The conversion succeeded to an amount that rounds to zero at 20 decimals.
ConvertedIsZero(converted) ==
    /\ converted.kind = "ok"
    /\ ValidAmount(converted.val)
    /\ IsZeroDec(RoundHalfUp(converted.val.v, 20))

-----------------------------------------------------------------------------
(* Properties of the error handling of the base-unit converter.            *)

\* The divisibility is an integer greater than 0.
IsPositiveInteger(d) ==
    d.t = "number" /\ ~d.nan /\ Norm(d.v).e >= 0 /\ d.v.c > 0

\* The input fails validation, or its result is NaN.
FailsValidation(value, divisibility) ==
    \/ value.t \notin {"number", "string"}
    \/ ~IsPositiveInteger(divisibility)
    \/ value.nan

(***************************************************************************)
(* C12: integerToDecimal returns undefined and raises nothing for an input *)
(* that fails validation or gives NaN when returnUndefinedOnError is true, *)
(* and raises when it is false; for every valid input it returns the       *)
(* string of value / 10^divisibility, never undefined.  decimalToInteger   *)
(* raises for an invalid value type or divisibility.                       *)
(***************************************************************************)
C12_IntegerToDecimalErrors ==
    /\ (call.op = "integerToDecimal" /\ FailsValidation(call.value, call.divisibility))
          => IF call.returnUndefinedOnError
             THEN call.ret = Ok(JsUndefined)
             ELSE call.ret.kind = "error"
    /\ (call.op = "integerToDecimal" /\ ~FailsValidation(call.value, call.divisibility))
          => /\ call.ret.kind = "ok"
             /\ call.ret.val.t = "string"
             /\ ~call.ret.val.nan
             /\ DecEq(call.ret.val.v,
                      Shift(call.value.v, 0 - IntOf(call.divisibility.v)))
    /\ (call.op = "decimalToInteger"
           /\ (call.value.t \notin {"number", "string"}
                  \/ ~IsPositiveInteger(call.divisibility)))
          => call.ret.kind = "error"

-----------------------------------------------------------------------------
(* Properties of overlapping fetches.                                      *)

\* The response with the pivot set to 1.
WithPivot(data) ==
    [k \in DOMAIN data \cup {ClaimedPivot} |->
        IF k = ClaimedPivot THEN 1 ELSE data[k]]

(***************************************************************************)
(* C13: overlapping fetches are neither deduplicated nor cancelled: an     *)
(* issue adds a request and keeps the ones in flight, a completion removes *)
(* its own request only.  Every successful completion, of whichever        *)
(* request, makes the table its response with the pivot set to 1, and no   *)
(* other step writes the table: the table is the response of the           *)
(* completion that ran last.  The table is at all times one response with  *)
(* the pivot (or the initial one), and getExchangeRates returns it.        *)
(***************************************************************************)
C13_LastCompletionWins ==
    /\ [][call'.op = "fetchExchangeRates" =>
            /\ Len(pending') = Len(pending) + 1
            /\ \A j \in 1..Len(pending) : pending'[j] = pending[j]]_vars
    /\ [][call'.op = "done" =>
            /\ Len(pending') = Len(pending) - 1
            /\ exchangeRates' = WithPivot(call'.data)]_vars
    /\ [][call'.op # "done" => exchangeRates' = exchangeRates]_vars
    /\ [](exchangeRates \in TablesOf(supportedCurs))
    /\ [](call.op = "getExchangeRates" => call.ret = Ok(exchangeRates))

\* A request completed after one issued later had completed, and its
\* response replaced that one's.
C13_Witness ==
    /\ call.op = "done"
    /\ call.overtaken
    /\ exchangeRates = WithPivot(call.data)
    /\ exchangeRates # call.previous

-----------------------------------------------------------------------------
(* Properties of the order of events.                                      *)

IsFetchingEvent(ev) == ev.name = "fetching-exchange-rates"

(***************************************************************************)
(* C14: every fetchExchangeRates call emits 'fetching-exchange-rates'      *)
(* exactly once, in the step that places its request, so before any event  *)
(* of its completion; no other step emits it or places a request.  At      *)
(* every event of a successful completion the cache already holds the new  *)
(* table, while a per-code event carries the value of the old one; the     *)
(* global 'exchange-rate-change' precedes every per-code event.            *)
(***************************************************************************)
C14_EventOrder ==
    /\ [][call'.op = "fetchExchangeRates" =>
            /\ Len(emitted') = 1
            /\ IsFetchingEvent(emitted'[1])]_vars
    /\ [][call'.op # "fetchExchangeRates" =>
            /\ \A i \in 1..Len(emitted') : ~IsFetchingEvent(emitted'[i])
            /\ Len(pending') <= Len(pending)]_vars
    /\ [](call.op = "done" =>
            /\ Len(call.seen) = Len(emitted)
            /\ \A i \in 1..Len(emitted) :
                  /\ call.seen[i] = exchangeRates
                  /\ IsPerCodeEvent(emitted[i]) =>
                        emitted[i].previous = Lookup(call.previous, emitted[i].cur)
            /\ \A i \in GlobalEvents : \A j \in 1..Len(emitted) :
                  IsPerCodeEvent(emitted[j]) => i < j)

\* A completion changed the rate of a code: its per-code event carries the
\* old rate, and a listener reading the cache finds the new one.
C14_Witness ==
    /\ call.op = "done"
    /\ \E i \in 1..Len(emitted) :
          /\ IsPerCodeEvent(emitted[i])
          /\ emitted[i].previous # << >>
          /\ Lookup(call.seen[i], emitted[i].cur) # << >>
          /\ Lookup(call.seen[i], emitted[i].cur) # emitted[i].previous
====
